---- MODULE Spec2Model ----
(***************************************************************************)
(* A model of salmi-dev/image-tools: the RGBA Color value type, the Pixel  *)
(* coordinate with its row-major successor, and the Image pixel grid with  *)
(* its unchecked get/set, checkBounds, byte export and iterator.           *)
(***************************************************************************)
EXTENDS Integers, Sequences, FiniteSets, TLC

VARIABLES
  width,      \* Image.width  (readonly, set by the constructor)
  height,     \* Image.height (readonly, set by the constructor)
  calc,       \* which colorCalculator the constructor was given
  pc,         \* "constructing" while the constructor's for..of loop runs, then "ready"
  ctorIt,     \* the iterator the constructor's for..of loop drives
  pixels,     \* Image.pixels, a JavaScript array
  calls,      \* the pixels colorCalculator has been invoked with, in order
  nUpdates,   \* number of updatePixel calls made so far
  oob,        \* some updatePixel call so far had a coordinate outside the grid
  ret,        \* the last method call on the image and its outcome
  iters,      \* the iterators obtained from image[Symbol.iterator]()
  yielded,    \* per iterator: the values its next() calls returned with done: false
  finished,   \* per iterator: its last next() call returned done: true
  args,       \* the four numbers last given to new Color(r, g, b, a)
  color,      \* the Color that call constructed
  top,        \* first operand of Color.composite
  bottom,     \* second operand of Color.composite
  result,     \* the last compositing call and the Color it returned
  numbers,    \* four JavaScript numbers, NaN and the infinities among them, given to new Color
  hex,        \* the string given to Color.fromHex
  made,       \* how that new Color or Color.fromHex ended: with an Error or with a Color
  receiver,   \* the Pixel whose transform method is called
  xTransform, \* first argument of transform
  yTransform, \* second argument of transform, undefined when omitted
  transformed \* the Pixel that transform returned

imageVars == <<width, height, calc, pc, ctorIt, pixels, calls, nUpdates, oob, ret>>
iterVars  == <<iters, yielded, finished>>
colorVars == <<args, color, top, bottom, result>>
parseVars == <<numbers, hex, made>>
pixelVars == <<receiver, xTransform, yTransform, transformed>>
vars      == <<imageVars, iterVars, colorVars, parseVars, pixelVars>>

----------------------------------------------------------------------------
(* Bounds of the model *)

MaxWidth   == 3
MaxHeight  == 2
MaxUpdates == 2
MaxWraps   == 1
EdgeWidth  == 1
MaxHexLength == 8
MaxCoordinate == 10

----------------------------------------------------------------------------
(* JavaScript values *)

\* The value undefined.
Undefined == [undefined |-> TRUE]

\* a % n of JavaScript for integers: the remainder takes the sign of the dividend.
JsRem(a, n) == IF a >= 0 THEN a % n ELSE 0 - ((0 - a) % n)

\* Storing an integer into a Uint8Array element: ToUint8, the value modulo 2^8.
ToUint8(v) == v % 256

\* A JavaScript array: its length and its own properties with integer keys.
\* Keys 0..length-1 that are absent are holes; negative keys are plain properties.
EmptyArray == [length |-> 0, elems |-> <<>>]

\* arr.push(v)
ArrayPush(arr, v) ==
  [length |-> arr.length + 1, elems |-> (arr.length :> v) @@ arr.elems]

\* arr[i] = v : an index at or past the end extends the array, leaving holes
\* in between; a negative key only adds a property.
ArraySet(arr, i, v) ==
  [length |-> IF i >= arr.length THEN i + 1 ELSE arr.length,
   elems  |-> (i :> v) @@ arr.elems]

\* arr[i] : undefined when there is no such property.
ArrayGet(arr, i) == IF i \in DOMAIN arr.elems THEN arr.elems[i] ELSE Undefined

\* A JavaScript number that is an integer, NaN, Infinity or -Infinity.
Finite(v)   == [kind |-> "finite", val |-> v]
NaN         == [kind |-> "NaN", val |-> 0]
PosInfinity == [kind |-> "Infinity", val |-> 0]
NegInfinity == [kind |-> "-Infinity", val |-> 0]

\* isNaN(x): true of NaN alone, false of the infinities.
isNaN(x) == x.kind = "NaN"

\* x % n for a finite n that is not 0: NaN when x is NaN or infinite.
NumberRem(x, n) == IF x.kind = "finite" THEN Finite(JsRem(x.val, n)) ELSE NaN

\* A string is the sequence of its characters.

\* s.startsWith(c) for a character c
startsWith(s, c) == Len(s) >= 1 /\ s[1] = c

\* s.slice(from, to) for 0 <= from <= to
slice(s, from, to) == SubSeq(s, from + 1, IF to > Len(s) THEN Len(s) ELSE to)

\* The digits parseInt knows, in either case, and their values.
DigitValue ==
  [c \in {"0", "1", "2", "3", "4", "5", "6", "7", "8", "9", "a", "b", "c", "d", "e", "f",
          "A", "B", "C", "D", "E", "F"} |->
     CASE c = "0" -> 0 [] c = "1" -> 1 [] c = "2" -> 2 [] c = "3" -> 3
       [] c = "4" -> 4 [] c = "5" -> 5 [] c = "6" -> 6 [] c = "7" -> 7
       [] c = "8" -> 8 [] c = "9" -> 9
       [] c \in {"a", "A"} -> 10 [] c \in {"b", "B"} -> 11 [] c \in {"c", "C"} -> 12
       [] c \in {"d", "D"} -> 13 [] c \in {"e", "E"} -> 14 [] c \in {"f", "F"} -> 15]

\* Is c a digit of the given radix?
IsDigit(c, radix) == c \in DOMAIN DigitValue /\ DigitValue[c] < radix

\* White space that parseInt skips at the start of its argument.
WhiteSpace == {" ", "\t", "\n"}

RECURSIVE TrimStart(_)
TrimStart(s) == IF s # <<>> /\ s[1] \in WhiteSpace THEN TrimStart(Tail(s)) ELSE s

\* The longest prefix of s made of digits of the radix.
RECURSIVE DigitsPrefix(_, _)
DigitsPrefix(s, radix) ==
  IF s # <<>> /\ IsDigit(s[1], radix)
  THEN <<s[1]>> \o DigitsPrefix(Tail(s), radix)
  ELSE <<>>

\* The number a nonempty sequence of digits denotes.
RECURSIVE DigitsNumber(_, _)
DigitsNumber(s, radix) ==
  IF s = <<>> THEN 0
  ELSE DigitsNumber(SubSeq(s, 1, Len(s) - 1), radix) * radix + DigitValue[s[Len(s)]]

\* parseInt(string, radix) for a radix in 2..16: leading white space is
\* skipped, then a sign is taken, with radix 16 a 0x or 0X is dropped, and
\* the digits up to the first character that is not one are read; the result
\* is NaN when there is no digit there.
parseInt(string, radix) ==
  LET trimmed  == TrimStart(string)
      signed   == trimmed # <<>> /\ trimmed[1] \in {"+", "-"}
      sign     == IF trimmed # <<>> /\ trimmed[1] = "-" THEN -1 ELSE 1
      unsigned == IF signed THEN Tail(trimmed) ELSE trimmed
      prefixed == /\ radix = 16 /\ Len(unsigned) >= 2
                  /\ unsigned[1] = "0" /\ unsigned[2] \in {"x", "X"}
      rest     == IF prefixed THEN SubSeq(unsigned, 3, Len(unsigned)) ELSE unsigned
      digits   == DigitsPrefix(rest, radix)
  IN  IF digits = <<>> THEN NaN ELSE Finite(sign * DigitsNumber(digits, radix))

\* How a call ended: `throw new Error(message)` or `return value`.
Thrown(message) == [threw |-> TRUE, value |-> message]
Returned(value) == [threw |-> FALSE, value |-> value]

----------------------------------------------------------------------------
(* Color *)

\* new Color(r, g, b, a) for numbers that are not NaN.
ColorNew(r, g, b, a) ==
  [r |-> JsRem(r, 256), g |-> JsRem(g, 256), b |-> JsRem(b, 256), a |-> JsRem(a, 256)]

\* new Color(r, g, b, a) for any numbers: the constructor throws when one of
\* them is NaN and stores each % 256 otherwise.
ColorConstructor(r, g, b, a) ==
  IF isNaN(r) \/ isNaN(g) \/ isNaN(b) \/ isNaN(a)
  THEN Thrown("Invalid color components")
  ELSE Returned([r |-> NumberRem(r, 256), g |-> NumberRem(g, 256),
                 b |-> NumberRem(b, 256), a |-> NumberRem(a, 256)])

\* Mutant of fromHex: a three-character string is repeated as a whole
\* instead of character by character.
fromHex_ShorthandRepeated(h) ==
  LET stripped == IF startsWith(h, "#") THEN slice(h, 1, Len(h)) ELSE h
      expanded == IF Len(stripped) = 3
                  THEN stripped \o stripped \o <<"F", "F">>
                  ELSE stripped
      padded   == IF Len(expanded) = 6 THEN expanded \o <<"F", "F">> ELSE expanded
  IN  IF Len(padded) # 8
      THEN Thrown(<<"Invalid hex color: ", padded>>)
      ELSE ColorConstructor(parseInt(slice(padded, 0, 2), 16),
                            parseInt(slice(padded, 2, 4), 16),
                            parseInt(slice(padded, 4, 6), 16),
                            parseInt(slice(padded, 6, 8), 16))

\* Color.fromHex(hex): one leading # is dropped; three characters are each
\* doubled and FF appended; FF is appended to six characters; what is then
\* not eight characters long is rejected, and the four pairs go through
\* parseInt into the constructor.
fromHex(h) ==
  LET stripped == IF startsWith(h, "#") THEN slice(h, 1, Len(h)) ELSE h
      expanded == IF Len(stripped) = 3
                  THEN [i \in 1..6 |-> stripped[(i + 1) \div 2]] \o <<"F", "F">>
                  ELSE stripped
      padded   == IF Len(expanded) = 6 THEN expanded \o <<"F", "F">> ELSE expanded
  IN  IF Len(padded) # 8
      THEN Thrown(<<"Invalid hex color: ", padded>>)
      ELSE ColorConstructor(parseInt(slice(padded, 0, 2), 16),
                            parseInt(slice(padded, 2, 4), 16),
                            parseInt(slice(padded, 4, 6), 16),
                            parseInt(slice(padded, 6, 8), 16))

\* The operand values at which the exact quotient of Color.composite is k + 1/2
\* while the IEEE 754 double quotient the code computes is below it, so that
\* Math.round yields k: <<top.c, top.a, bottom.c, bottom.a>>. Evaluated in
\* double arithmetic for all operands drawn from 0..4, 127, 128, 251..255.
QuotientBelowHalf == {<<0, 254, 128, 254>>}

\* Math.round(n / d) for d > 0: the nearest integer, a half rounding up.
MathRound(n, d) == (2 * n + d) \div (2 * d)

\* Mutant of compositeChannel: the bottom term is not attenuated by
\* (1 - topAlpha).
compositeChannel_BottomUnattenuated(tc, ta, bc, ba) ==
  LET n == 255 * tc * ta + bc * ba * 255
      d == 255 * ta + ba * (255 - ta)
  IN  MathRound(n, d)

\* One of r, g, b of Color.composite, for operands with channels in 0..255.
\* With topAlpha = ta/255 and bottomAlpha = ba/255 the quotient
\*   (tc*topAlpha + bc*bottomAlpha*(1 - topAlpha)) / resultAlpha
\* is n / d for the integers below; the double result rounds as n / d does
\* except at the ties listed in QuotientBelowHalf.
compositeChannel(tc, ta, bc, ba) ==
  LET n == 255 * tc * ta + bc * ba * (255 - ta)
      d == 255 * ta + ba * (255 - ta)
  IN  IF <<tc, ta, bc, ba>> \in QuotientBelowHalf
      THEN n \div d
      ELSE MathRound(n, d)

\* Mutant of composite: the short-circuit tests the top alpha alone.
composite_TopAlphaShortCircuit(t, b) ==
  LET d == 255 * t.a + b.a * (255 - t.a)
  IN  IF t.a = 0
      THEN ColorNew(0, 0, 0, 0)
      ELSE ColorNew(compositeChannel(t.r, t.a, b.r, b.a),
                    compositeChannel(t.g, t.a, b.g, b.a),
                    compositeChannel(t.b, t.a, b.b, b.a),
                    MathRound(d, 255))

\* Mutant of compositeArgs: the alpha is the sum of the two alphas.
compositeArgs_AlphaSum(t, b) ==
  <<compositeChannel(t.r, t.a, b.r, b.a),
    compositeChannel(t.g, t.a, b.g, b.a),
    compositeChannel(t.b, t.a, b.b, b.a),
    t.a + b.a>>

\* The r, g, b, a that Color.composite hands to the constructor when
\* resultAlpha is not 0: resultAlpha is d / 255^2 for the integer d below,
\* and resultAlpha * 255 is d / 255.
compositeArgs(t, b) ==
  LET d == 255 * t.a + b.a * (255 - t.a)
  IN  <<compositeChannel(t.r, t.a, b.r, b.a),
        compositeChannel(t.g, t.a, b.g, b.a),
        compositeChannel(t.b, t.a, b.b, b.a),
        MathRound(d, 255)>>

\* Color.composite(top, bottom): resultAlpha is 0 exactly when both alphas
\* are 0, that is when d is 0.
composite(t, b) ==
  LET d == 255 * t.a + b.a * (255 - t.a)
      v == compositeArgs(t, b)
  IN  IF d = 0
      THEN ColorNew(0, 0, 0, 0)
      ELSE ColorNew(v[1], v[2], v[3], v[4])

\* Mutant of compositeOver: the operands are exchanged.
compositeOver_Swapped(self, b) == composite(b, self)

\* color.compositeOver(bottom)
compositeOver(self, b) == composite(self, b)

Black == ColorNew(0, 0, 0, 255)
White == ColorNew(255, 255, 255, 255)
Red   == ColorNew(255, 0, 0, 255)
Blue  == ColorNew(0, 0, 255, 255)

----------------------------------------------------------------------------
(* Pixel *)

Pixel(x, y) == [x |-> x, y |-> y]

\* Mutant of nextPixel: the last row is recognised by next.y = height alone.
nextPixel_EndByEquality(p, w, h) ==
  IF p.x + 1 >= w
  THEN LET next == Pixel(0, p.y + 1)
       IN  IF next.y = h THEN Undefined ELSE next
  ELSE Pixel(p.x + 1, p.y)

\* Mutant of nextPixel: the end of a row is tested with > instead of >=.
nextPixel_OffByOne(p, w, h) ==
  IF p.x + 1 > w
  THEN LET next == Pixel(0, p.y + 1)
       IN  IF next.y >= h THEN Undefined ELSE next
  ELSE Pixel(p.x + 1, p.y)

\* Pixel.nextPixel(width, height)
nextPixel(p, w, h) ==
  IF p.x + 1 >= w
  THEN LET next == Pixel(0, p.y + 1)
       IN  IF next.y >= h THEN Undefined ELSE next
  ELSE Pixel(p.x + 1, p.y)

\* The functions given to transform: those of the tests.
Function(name) == [fn |-> name]

call(f, v) ==
  CASE f.fn = "double"    -> v * 2
    [] f.fn = "increment" -> v + 1
    [] f.fn = "decrement" -> v - 1
    [] f.fn = "minus3"    -> v - 3
    [] f.fn = "mirror"    -> 99 - v

\* Mutant of transform: without a yTransform the y coordinate is kept.
transform_KeepsY(p, xTransform_, yTransform_) ==
  Pixel(call(xTransform_, p.x),
        IF yTransform_ = Undefined THEN p.y ELSE call(yTransform_, p.y))

\* pixel.transform(xTransform, yTransform): a yTransform that is undefined is
\* replaced by (y) => xTransform(y).
transform(p, xTransform_, yTransform_) ==
  LET yTransformCopy == IF yTransform_ = Undefined THEN xTransform_ ELSE yTransform_
  IN  Pixel(call(xTransform_, p.x), call(yTransformCopy, p.y))

----------------------------------------------------------------------------
(* Image *)

\* image[Symbol.iterator](): the closure's nextEl starts at Pixel(0, 0).
SymbolIterator == [nextEl |-> Pixel(0, 0)]

\* The iterator's next(): the iterator afterwards and the IteratorResult.
IteratorNext(it, w, h) ==
  LET current == it.nextEl
      nextEl  == IF current = Undefined THEN Undefined ELSE nextPixel(current, w, h)
  IN  [it    |-> [nextEl |-> nextEl],
       done  |-> (current = Undefined),
       value |-> current]

\* The color calculators: the constructor's default and the tests' checkerboard.
Calculators == {"white", "checkerboard"}

colorCalculator(c, p) ==
  IF c = "white" THEN White
  ELSE IF JsRem(p.x + p.y, 2) = 0 THEN White ELSE Black

\* Mutant of InBounds: the upper limits are tested with > instead of >=.
InBounds_Inclusive(p, w, h) == ~(p.x < 0 \/ p.x > w \/ p.y < 0 \/ p.y > h)

\* The condition under which checkBounds throws, negated.
InBounds(p, w, h) == ~(p.x < 0 \/ p.x >= w \/ p.y < 0 \/ p.y >= h)

\* Mutant of updatePixelIndex: x and y exchanged.
updatePixelIndex_Transposed(p, w) == p.x * w + p.y

\* The flat index updatePixel computes.
updatePixelIndex(p, w) == p.y * w + p.x

\* The flat index getPixel computes.
getPixelIndex(p, w) == p.y * w + p.x

\* The Error message of checkBounds: the template literal's literal parts and
\* interpolated values, in order.
BoundsMessage(p, w, h) ==
  <<"Pixel coordinates (", p.x, ", ", p.y,
    ") are out of bounds for image size ", w, "x", h, ".">>

\* One channel of a Color, in the order toUint8Array writes them.
Channel(c, k) == IF k = 0 THEN c.r ELSE IF k = 1 THEN c.g ELSE IF k = 2 THEN c.b ELSE c.a

\* Mutant of toUint8Array: the bytes of a cell written as b, g, r, a.
toUint8Array_BGRA(arr, w, h) ==
  LET n == w * h * 4
  IN  [i \in 0..(n - 1) |->
         LET index == i \div 4
             k     == IF i % 4 = 0 THEN 2 ELSE IF i % 4 = 2 THEN 0 ELSE i % 4
         IN  IF index < arr.length /\ index \in DOMAIN arr.elems
             THEN ToUint8(Channel(arr.elems[index], k))
             ELSE 0]

\* toUint8Array(): a zero-filled Uint8Array(width * height * 4); forEach visits
\* the present indices below length (holes are skipped) and writes four
\* bytes per element; a write past the end of a typed array is ignored.
toUint8Array(arr, w, h) ==
  LET n == w * h * 4
  IN  [i \in 0..(n - 1) |->
         LET index == i \div 4
         IN  IF index < arr.length /\ index \in DOMAIN arr.elems
             THEN ToUint8(Channel(arr.elems[index], i % 4))
             ELSE 0]

\* The record of a call in ret.
Call(op, p, c, threw, value) ==
  [op |-> op, pixel |-> p, color |-> c, threw |-> threw, value |-> value]

NoCall == Call("none", Undefined, Undefined, FALSE, Undefined)

----------------------------------------------------------------------------
(* Inputs *)

\* Widths and heights given to the constructor: it validates neither, so
\* zero and a negative value are among them.
Dims(max) == (-1)..max

\* Coordinates handed to a w x h image: every cell of the grid, and the
\* coordinates just outside it on each side and at two corners.
PixelArgs(w, h) ==
  {Pixel(x, y) : x \in 0..(w - 1), y \in 0..(h - 1)}
    \cup {Pixel(-1, 0), Pixel(0, -1), Pixel(w, 0), Pixel(0, h), Pixel(w, h), Pixel(-1, -1)}

\* Coordinates handed to updatePixel: every cell, and outside the grid one past
\* the end of the first row, one below the first column, the far corner and
\* one before the first cell.
UpdateArgs(w, h) ==
  {Pixel(x, y) : x \in 0..(w - 1), y \in 0..(h - 1)}
    \cup {Pixel(w, 0), Pixel(0, h), Pixel(w, h), Pixel(-1, 0)}

UpdateColors == {Red, Blue}

IterIds == {1, 2}

\* Numbers given to new Color: around each multiple of 256 up to MaxWraps
\* wraps on either side of 0, and the tests' 300, 400 and 500.
RawInputs ==
  {k * 256 + e : k \in (0 - MaxWraps)..MaxWraps, e \in {-1, 0, 1}} \cup {300, 400, 500}

\* Numbers given to new Color that need not be finite.
Numbers ==
  {Finite(v) : v \in {-1, 0, 255, 300}} \cup {NaN, PosInfinity, NegInfinity}

\* Pixels whose transform is called, and the functions given to it.
Coordinates == (-1)..MaxCoordinate

TransformFunctions ==
  {Function(n) : n \in {"double", "increment", "decrement", "minus3", "mirror"}}

\* Strings given to Color.fromHex.
\* Every string of up to n characters over a digit, a letter digit and a
\* character that is no digit.
HexAlphabet == {"1", "f", "G"}

ShortStrings(n) == UNION {[1..k -> HexAlphabet] : k \in 0..n}

\* Every string of k digits, in either case.
DigitStrings(k) == [1..k -> DOMAIN DigitValue]

\* Pairs of characters: the bytes of the tests, and pairs in which one
\* character is no digit: after a digit, white space or a sign before a
\* digit, and the 0x prefix.
BytePairs ==
  {<<"F", "F">>, <<"8", "0">>, <<"4", "0">>, <<"C", "8">>, <<"c", "8">>, <<"0", "0">>}

OddPairs ==
  {<<"1", "G">>, <<"G", "1">>, <<" ", "1">>, <<"-", "1">>, <<"+", "f">>, <<"0", "x">>}

\* Six and eight characters put together from pairs.
PairStrings(Pairs) ==
  {a \o b \o c : a \in Pairs, b \in Pairs, c \in Pairs}
    \cup {a \o b \o c \o d : a \in Pairs, b \in Pairs, c \in Pairs, d \in BytePairs}

\* The strings the tests expect to be rejected.
RejectedByTests ==
  {<<"#", "X", "Y", "Z">>, <<"#", "1", "2", "3", "4", "5">>, <<>>,
   <<"#", "1", "2", "3", "4", "5", "6", "7">>}

\* The short strings up to n characters behind no #, one # or two; the
\* shorthands of three digits and the strings of pairs, with and without #.
HexInputs(n) ==
  {p \o t : p \in {<<>>, <<"#">>, <<"#", "#">>}, t \in ShortStrings(n)}
    \cup {p \o t : p \in {<<>>, <<"#">>},
                   t \in DigitStrings(3) \cup PairStrings(BytePairs \cup OddPairs)}
    \cup RejectedByTests

\* Channel and alpha values of the colors composited: both ends of the
\* range and its middle.
Samples == (0..EdgeWidth) \cup {127, 128} \cup ((255 - EdgeWidth)..255)

\* r, g and b go through the same expression: r and the alpha take every
\* sample, g and b two values each.
ColorSamples ==
  {ColorNew(r, g, b, a) : r \in Samples, g \in {0, 128}, b \in {0, 255}, a \in Samples}

----------------------------------------------------------------------------
(* Initial state: new Image(width, height, colorCalculator) has stored the  *)
(* dimensions and is about to run its for..of loop.                         *)

ImageInit ==
  /\ width \in Dims(MaxWidth)
  /\ height \in Dims(MaxHeight)
  /\ calc \in Calculators
  /\ pc = "constructing"
  /\ ctorIt = SymbolIterator
  /\ pixels = EmptyArray
  /\ calls = <<>>
  /\ nUpdates = 0
  /\ oob = FALSE
  /\ ret = NoCall

IterInit ==
  /\ iters = [i \in IterIds |-> Undefined]
  /\ yielded = [i \in IterIds |-> <<>>]
  /\ finished = [i \in IterIds |-> FALSE]

ColorIdle ==
  /\ args = Undefined
  /\ color = Undefined
  /\ top = Undefined
  /\ bottom = Undefined
  /\ result = Undefined

\* No number or string given to Color yet.
ParseIdle ==
  /\ numbers = Undefined
  /\ hex = Undefined
  /\ made = Undefined

\* No transform called yet.
PixelIdle ==
  /\ receiver = Undefined
  /\ xTransform = Undefined
  /\ yTransform = Undefined
  /\ transformed = Undefined

Init == ImageInit /\ IterInit /\ ColorIdle /\ ParseIdle /\ PixelIdle

\* No image in play.
ImageIdle ==
  /\ width = 0
  /\ height = 0
  /\ calc = "white"
  /\ pc = "none"
  /\ ctorIt = Undefined
  /\ pixels = EmptyArray
  /\ calls = <<>>
  /\ nUpdates = 0
  /\ oob = FALSE
  /\ ret = NoCall

\* Four numbers about to be given to new Color.
ColorInit ==
  /\ ImageIdle /\ IterInit /\ ParseIdle /\ PixelIdle
  /\ args \in RawInputs \X RawInputs \X RawInputs \X RawInputs
  /\ color = Undefined
  /\ top = Undefined
  /\ bottom = Undefined
  /\ result = Undefined

\* Four numbers, finite or not, about to be given to new Color.
NumbersInit ==
  /\ ImageIdle /\ IterInit /\ ColorIdle /\ PixelIdle
  /\ numbers \in Numbers \X Numbers \X Numbers \X Numbers
  /\ hex = Undefined
  /\ made = Undefined

\* A string about to be given to Color.fromHex.
HexInit ==
  /\ ImageIdle /\ IterInit /\ ColorIdle /\ PixelIdle
  /\ numbers = Undefined
  /\ hex \in HexInputs(MaxHexLength)
  /\ made = Undefined

\* A pixel about to be transformed.
TransformInit ==
  /\ ImageIdle /\ IterInit /\ ColorIdle /\ ParseIdle
  /\ receiver \in {Pixel(x, y) : x \in Coordinates, y \in Coordinates}
  /\ xTransform \in TransformFunctions
  /\ yTransform \in TransformFunctions \cup {Undefined}
  /\ transformed = Undefined

\* Two colors about to be composited.
CompositeInit ==
  /\ ImageIdle /\ IterInit /\ ParseIdle /\ PixelIdle
  /\ args = Undefined
  /\ color = Undefined
  /\ top \in ColorSamples
  /\ bottom \in ColorSamples
  /\ result = Undefined

----------------------------------------------------------------------------
(* Image actions *)

\* One round of the constructor's for..of loop: next() on the iterator, then
\* either the loop ends or colorCalculator's color is pushed.
ConstructorStep ==
  /\ pc = "constructing"
  /\ LET r == IteratorNext(ctorIt, width, height)
     IN  /\ ctorIt' = r.it
         /\ IF r.done
            THEN /\ pc' = "ready"
                 /\ UNCHANGED <<pixels, calls>>
            ELSE /\ pixels' = ArrayPush(pixels, colorCalculator(calc, r.value))
                 /\ calls' = Append(calls, r.value)
                 /\ pc' = pc
  /\ UNCHANGED <<width, height, calc, nUpdates, oob, ret>>
  /\ UNCHANGED <<iterVars, colorVars, parseVars, pixelVars>>

\* image.updatePixel(p, c)
updatePixel(p, c) ==
  /\ pc = "ready"
  /\ nUpdates < MaxUpdates
  /\ pixels' = ArraySet(pixels, updatePixelIndex(p, width), c)
  /\ ret' = Call("updatePixel", p, c, FALSE, Undefined)
  /\ nUpdates' = nUpdates + 1
  /\ oob' = (oob \/ ~InBounds(p, width, height))
  /\ UNCHANGED <<width, height, calc, pc, ctorIt, calls>>
  /\ UNCHANGED <<iterVars, colorVars, parseVars, pixelVars>>

\* image.getPixel(p)
getPixel(p) ==
  /\ pc = "ready"
  /\ ret' = Call("getPixel", p, Undefined, FALSE, ArrayGet(pixels, getPixelIndex(p, width)))
  /\ UNCHANGED <<width, height, calc, pc, ctorIt, pixels, calls, nUpdates, oob>>
  /\ UNCHANGED <<iterVars, colorVars, parseVars, pixelVars>>

\* image.checkBounds(p)
checkBounds(p) ==
  /\ pc = "ready"
  /\ ret' = IF InBounds(p, width, height)
            THEN Call("checkBounds", p, Undefined, FALSE, Undefined)
            ELSE Call("checkBounds", p, Undefined, TRUE, BoundsMessage(p, width, height))
  /\ UNCHANGED <<width, height, calc, pc, ctorIt, pixels, calls, nUpdates, oob>>
  /\ UNCHANGED <<iterVars, colorVars, parseVars, pixelVars>>

\* image.toUint8Array(): new Uint8Array(n) throws a RangeError for a negative n.
ExportBytes ==
  /\ pc = "ready"
  /\ ret' = IF width * height * 4 < 0
            THEN Call("toUint8Array", Undefined, Undefined, TRUE, "RangeError")
            ELSE Call("toUint8Array", Undefined, Undefined, FALSE,
                      toUint8Array(pixels, width, height))
  /\ UNCHANGED <<width, height, calc, pc, ctorIt, pixels, calls, nUpdates, oob>>
  /\ UNCHANGED <<iterVars, colorVars, parseVars, pixelVars>>

----------------------------------------------------------------------------
(* Iterators over the constructed image *)

\* image[Symbol.iterator](), as a for..of loop over the image begins.
IterCreate(i) ==
  /\ pc = "ready"
  /\ iters' = [iters EXCEPT ![i] = SymbolIterator]
  /\ yielded' = [yielded EXCEPT ![i] = <<>>]
  /\ finished' = [finished EXCEPT ![i] = FALSE]
  /\ UNCHANGED <<imageVars, colorVars, parseVars, pixelVars>>

\* Mutant of IterStep: nextEl is one cursor shared by every iterator of the
\* image instead of a variable of each iterator's closure.
IterStep_SharedCursor(i) ==
  /\ pc = "ready"
  /\ iters[i] # Undefined
  /\ LET r == IteratorNext(iters[i], width, height)
     IN  /\ iters' = [j \in IterIds |-> IF iters[j] = Undefined THEN Undefined ELSE r.it]
         /\ IF r.done
            THEN /\ finished' = [finished EXCEPT ![i] = TRUE]
                 /\ UNCHANGED yielded
            ELSE /\ yielded' = [yielded EXCEPT ![i] = Append(@, r.value)]
                 /\ UNCHANGED finished
  /\ UNCHANGED <<imageVars, colorVars, parseVars, pixelVars>>

\* next() on iterator i.
IterStep(i) ==
  /\ pc = "ready"
  /\ iters[i] # Undefined
  /\ LET r == IteratorNext(iters[i], width, height)
     IN  /\ iters' = [iters EXCEPT ![i] = r.it]
         /\ IF r.done
            THEN /\ finished' = [finished EXCEPT ![i] = TRUE]
                 /\ UNCHANGED yielded
            ELSE /\ yielded' = [yielded EXCEPT ![i] = Append(@, r.value)]
                 /\ UNCHANGED finished
  /\ UNCHANGED <<imageVars, colorVars, parseVars, pixelVars>>

\* `for (const pixel of image)` obtains its iterator once, when it begins.
IterStart(i) ==
  /\ iters[i] = Undefined
  /\ IterCreate(i)

\* The body of `for (const pixel of image) image.updatePixel(pixel, c)`:
\* updatePixel on the pixel iterator i yielded last.
UpdateYielded(i, c) ==
  /\ yielded[i] # <<>>
  /\ updatePixel(yielded[i][Len(yielded[i])], c)

----------------------------------------------------------------------------
(* Pixel actions *)

\* receiver.transform(xTransform, yTransform): x and y are readonly.
Transform ==
  /\ transformed' = transform(receiver, xTransform, yTransform)
  /\ UNCHANGED <<receiver, xTransform, yTransform>>
  /\ UNCHANGED <<imageVars, iterVars, colorVars, parseVars>>

----------------------------------------------------------------------------
(* Color actions *)

\* new Color(args[1], args[2], args[3], args[4])
Construct ==
  /\ color = Undefined
  /\ color' = ColorNew(args[1], args[2], args[3], args[4])
  /\ UNCHANGED <<args, top, bottom, result>>
  /\ UNCHANGED <<imageVars, iterVars, parseVars, pixelVars>>

\* new Color(numbers[1], numbers[2], numbers[3], numbers[4])
ConstructNumbers ==
  /\ made = Undefined
  /\ made' = ColorConstructor(numbers[1], numbers[2], numbers[3], numbers[4])
  /\ UNCHANGED <<numbers, hex>>
  /\ UNCHANGED <<imageVars, iterVars, colorVars, pixelVars>>

\* Color.fromHex(hex)
FromHex ==
  /\ made = Undefined
  /\ made' = fromHex(hex)
  /\ UNCHANGED <<numbers, hex>>
  /\ UNCHANGED <<imageVars, iterVars, colorVars, pixelVars>>

\* Color.composite(top, bottom)
Composite ==
  /\ result' = [op |-> "composite", value |-> composite(top, bottom)]
  /\ UNCHANGED <<args, color, top, bottom>>
  /\ UNCHANGED <<imageVars, iterVars, parseVars, pixelVars>>

\* top.compositeOver(bottom)
CompositeOver ==
  /\ result' = [op |-> "compositeOver", value |-> compositeOver(top, bottom)]
  /\ UNCHANGED <<args, color, top, bottom>>
  /\ UNCHANGED <<imageVars, iterVars, parseVars, pixelVars>>

----------------------------------------------------------------------------
(* Specifications *)

\* The image: construction, updatePixel, getPixel, toUint8Array.
Next ==
  \/ ConstructorStep
  \/ \E p \in UpdateArgs(width, height), c \in UpdateColors : updatePixel(p, c)
  \/ \E p \in PixelArgs(width, height) : getPixel(p)
  \/ ExportBytes

Spec == Init /\ [][Next]_vars

\* The image and its bounds validator.
NextBounds ==
  \/ ConstructorStep
  \/ \E p \in UpdateArgs(width, height), c \in UpdateColors : updatePixel(p, c)
  \/ \E p \in PixelArgs(width, height) : checkBounds(p)

SpecBounds == Init /\ [][NextBounds]_vars

\* The image and two iterators over it, advanced in any interleaving, with
\* updates of the pixels they yield in between.
NextIter ==
  \/ ConstructorStep
  \/ \E i \in IterIds : IterCreate(i)
  \/ \E i \in IterIds : IterStep(i)
  \/ \E i \in IterIds, c \in UpdateColors : UpdateYielded(i, c)

SpecIter == Init /\ [][NextIter]_vars

\* for..of loops over the image: each obtains its iterator once and keeps
\* calling next(), as the constructor's own loop does, so neither the
\* constructor nor a loop is ever left waiting for its next call.
NextLoop ==
  \/ ConstructorStep
  \/ \E i \in IterIds : IterStart(i)
  \/ \E i \in IterIds : IterStep(i)

SpecLoop ==
  /\ Init /\ [][NextLoop]_vars
  /\ WF_vars(ConstructorStep)
  /\ \A i \in IterIds : WF_vars(IterStep(i))

\* The Color constructor on drawn inputs.
NextColor == Construct

SpecColor == ColorInit /\ [][NextColor]_vars

\* The Color constructor on numbers that need not be finite.
NextNumbers == ConstructNumbers

SpecNumbers == NumbersInit /\ [][NextNumbers]_vars

\* Color.fromHex on drawn strings.
NextHex == FromHex

SpecHex == HexInit /\ [][NextHex]_vars

\* Pixel.transform on drawn pixels and functions.
NextTransform == Transform

SpecTransform == TransformInit /\ [][NextTransform]_vars

\* Compositing of drawn colors.
NextComposite ==
  \/ Composite
  \/ CompositeOver

SpecComposite == CompositeInit /\ [][NextComposite]_vars

----------------------------------------------------------------------------
(* Reference notions the properties are stated with *)

\* The row-major enumeration of a w x h grid: the k-th coordinate, counting
\* from 0, is (k mod w, k div w).
RowMajor(w, h) == [k \in 1..(w * h) |-> Pixel((k - 1) % w, (k - 1) \div w)]

\* The cells of a w x h grid.
Grid(w, h) == {Pixel(x, y) : x \in 0..(w - 1), y \in 0..(h - 1)}

\* The array element at the flat index y*w + x.
CellAt(arr, p, w) ==
  IF (p.y * w + p.x) \in DOMAIN arr.elems THEN arr.elems[p.y * w + p.x] ELSE Undefined

\* The Porter-Duff "over" of two colors in exact arithmetic, a half rounding up.
PorterDuffOver(t, b) ==
  LET D == 255 * t.a + b.a * (255 - t.a)
      over(tc, bc) == MathRound(255 * tc * t.a + bc * b.a * (255 - t.a), D)
  IN  IF D = 0
      THEN [r |-> 0, g |-> 0, b |-> 0, a |-> 0]
      ELSE [r |-> over(t.r, b.r), g |-> over(t.g, b.g), b |-> over(t.b, b.b),
            a |-> MathRound(D, 255)]

\* What is left of a string once one leading # is taken off.
HexBody(h) == IF h # <<>> /\ h[1] = "#" THEN Tail(h) ELSE h

\* An optional # followed by exactly 3, 6 or 8 hexadecimal digits.
WellFormedHex(h) ==
  /\ Len(HexBody(h)) \in {3, 6, 8}
  /\ \A i \in 1..Len(HexBody(h)) : HexBody(h)[i] \in DOMAIN DigitValue

\* The color that 3, 6 or 8 hexadecimal digits denote.
HexColor(h) ==
  LET digit(i) == DigitValue[h[i]]
      byte(i)  == 16 * digit(i) + digit(i + 1)
  IN  IF Len(h) = 3
      THEN [r |-> Finite(17 * digit(1)), g |-> Finite(17 * digit(2)),
            b |-> Finite(17 * digit(3)), a |-> Finite(255)]
      ELSE [r |-> Finite(byte(1)), g |-> Finite(byte(3)), b |-> Finite(byte(5)),
            a |-> IF Len(h) = 8 THEN Finite(byte(7)) ELSE Finite(255)]

----------------------------------------------------------------------------
(* Properties of Color *)

\* C1: for all integers r, g, b, a, negative ones included, the constructor
\* stores each channel v as ((v mod 256) + 256) mod 256, so every channel of
\* a constructed Color lies in 0..255.
C1_ChannelsWrapIntoRange ==
  color # Undefined =>
    /\ color.r = ((args[1] % 256) + 256) % 256
    /\ color.g = ((args[2] % 256) + 256) % 256
    /\ color.b = ((args[3] % 256) + 256) % 256
    /\ color.a = ((args[4] % 256) + 256) % 256
    /\ \A v \in {color.r, color.g, color.b, color.a} : v \in 0..255

\* C14: Color.fromHex(s) succeeds if and only if s, after one optional
\* leading # is taken off, is exactly 3, 6 or 8 hexadecimal digits; any other
\* length, and any non-digit at any position, raises an error.
C14_FromHexAcceptsExactlyHex ==
  made # Undefined => (~made.threw <=> WellFormedHex(hex))

\* C15: for a string h of 3 hexadecimal digits fromHex(h) is (17*d1, 17*d2,
\* 17*d3, 255); of 6, its three bytes read base 16 and alpha 255; of 8, the
\* fourth byte is the alpha; and fromHex of # followed by h is the same color.
C15_FromHexValue ==
  (made # Undefined /\ WellFormedHex(hex)) =>
    /\ ~made.threw
    /\ made.value = HexColor(HexBody(hex))
    /\ fromHex(<<"#">> \o HexBody(hex)) = fromHex(HexBody(hex))

\* "#FF8040C8" is (255, 128, 64, 200).
C15_Witness ==
  /\ made # Undefined
  /\ hex = <<"#", "F", "F", "8", "0", "4", "0", "C", "8">>
  /\ ~made.threw
  /\ made.value = [r |-> Finite(255), g |-> Finite(128), b |-> Finite(64), a |-> Finite(200)]

\* C16: constructing a Color fails with an error whenever one of the four
\* inputs is NaN, Infinity or -Infinity, so no Color has a channel that is
\* NaN or infinite.
C16_NonFiniteRejected ==
  made # Undefined =>
    /\ (\E k \in 1..4 : numbers[k].kind # "finite") => made.threw
    /\ ~made.threw =>
         \A v \in {made.value.r, made.value.g, made.value.b, made.value.a} :
           v.kind = "finite"

\* C10 as stated: for every top with a = 0 and every bottom, whatever its
\* alpha, Color.composite(top, bottom) equals bottom in r, g, b and a.
C10_TransparentTopAnyBottom ==
  (result # Undefined /\ result.op = "composite" /\ top.a = 0) => result.value = bottom

\* C10 as amended: for every top with a = 0, Color.composite(top, bottom)
\* equals bottom in r, g, b and a when bottom.a is in 1..255; when bottom.a
\* is 0 as well it is (0, 0, 0, 0), equal to bottom in a.
C10_TransparentTopKeepsBottom ==
  (result # Undefined /\ result.op = "composite" /\ top.a = 0) =>
    /\ bottom.a # 0 => result.value = bottom
    /\ bottom.a = 0 => result.value = [r |-> 0, g |-> 0, b |-> 0, a |-> 0]
    /\ result.value.a = bottom.a

C10_Witness ==
  /\ result # Undefined /\ result.op = "composite"
  /\ top = [r |-> 255, g |-> 0, b |-> 0, a |-> 0]
  /\ bottom = [r |-> 0, g |-> 0, b |-> 255, a |-> 255]
  /\ result.value = [r |-> 0, g |-> 0, b |-> 255, a |-> 255]

\* C11: for every top with a = 255 and every bottom with channels in 0..255,
\* Color.composite(top, bottom) equals top in r, g, b and a.
C11_OpaqueTopOccludes ==
  (result # Undefined /\ result.op = "composite" /\ top.a = 255) => result.value = top

\* Opaque red over opaque blue is red.
C11_Witness ==
  /\ result # Undefined /\ result.op = "composite"
  /\ top = Red /\ bottom = Blue
  /\ result.value = [r |-> 255, g |-> 0, b |-> 0, a |-> 255]

\* C12: for all top and bottom with channels in 0..255, Color.composite(top,
\* bottom) is the Porter-Duff "over" in exact arithmetic with halves rounding
\* up: (0, 0, 0, 0) when D = 255*top.a + bottom.a*(255 - top.a) is 0, else
\* round((255*top.c*top.a + bottom.c*bottom.a*(255 - top.a)) / D) per channel
\* and round(D / 255) for the alpha; (255,0,0,128) over (0,0,255,255) is
\* (128, 0, 127, 255).
C12_PorterDuffReference ==
  (result # Undefined /\ result.op = "composite") =>
    /\ result.value = PorterDuffOver(top, bottom)
    /\ (top = [r |-> 255, g |-> 0, b |-> 0, a |-> 128] /\ bottom = Blue) =>
          result.value = [r |-> 128, g |-> 0, b |-> 127, a |-> 255]

\* C13: top.compositeOver(bottom) returns a Color equal in all four channels
\* to Color.composite(top, bottom), and neither call changes top or bottom.
C13_CompositeOverIsComposite ==
  [][/\ result'.op = "compositeOver" =>
          /\ result'.value.r = composite(top, bottom).r
          /\ result'.value.g = composite(top, bottom).g
          /\ result'.value.b = composite(top, bottom).b
          /\ result'.value.a = composite(top, bottom).a
     /\ top' = top
     /\ bottom' = bottom]_vars

\* Half-transparent red over opaque blue, through the instance method.
C13_Witness ==
  /\ result # Undefined /\ result.op = "compositeOver"
  /\ top = [r |-> 255, g |-> 0, b |-> 0, a |-> 128] /\ bottom = Blue
  /\ result.value = [r |-> 128, g |-> 0, b |-> 127, a |-> 255]

\* C18: for top and bottom with channels in 0..255, each of the r, g, b, a
\* that Color.composite computes before construction is already in 0..255,
\* so the constructor's % 256 leaves it as it is.
C18_CompositeArgsInRange ==
  (result # Undefined /\ result.op = "composite" /\ (top.a # 0 \/ bottom.a # 0)) =>
    LET v == compositeArgs(top, bottom)
    IN  /\ \A k \in 1..4 : v[k] \in 0..255
        /\ result.value = [r |-> v[1], g |-> v[2], b |-> v[3], a |-> v[4]]

\* Two equal opaque colors: r, b and the alpha are computed as 255, the
\* largest there is.
C18_Witness ==
  /\ result # Undefined /\ result.op = "composite"
  /\ top = [r |-> 255, g |-> 128, b |-> 255, a |-> 255]
  /\ bottom = [r |-> 255, g |-> 128, b |-> 255, a |-> 255]
  /\ result.value = [r |-> 255, g |-> 128, b |-> 255, a |-> 255]

----------------------------------------------------------------------------
(* Properties of Pixel *)

----------------------------------------------------------------------------
(* Properties of the image *)

\* C2: for width >= 1 and height >= 1, once constructed and after any
\* sequence of updatePixel calls with any coordinates, pixels has length
\* exactly width * height.
C2_LengthIsWidthTimesHeight ==
  (pc = "ready" /\ width >= 1 /\ height >= 1) => pixels.length = width * height

\* C3: a getPixel or updatePixel call with a coordinate outside the grid raises
\* an error and leaves every cell as it was.
C3_OutOfBoundsAccessRejected ==
  [][(/\ ret'.op \in {"getPixel", "updatePixel"}
      /\ LET p == ret'.pixel
         IN  p.x < 0 \/ p.x >= width \/ p.y < 0 \/ p.y >= height)
     => (ret'.threw /\ pixels' = pixels)]_vars

\* C4: for width >= 0 and height >= 0 the constructor invokes the color
\* function exactly once per coordinate of the grid and for no other, in
\* row-major order; pixels then has length width * height and the cell at
\* (x, y) holds the color function's value there; a zero-area grid is empty.
C4_ConstructorCoversGrid ==
  (pc = "ready" /\ nUpdates = 0 /\ width >= 0 /\ height >= 0)
    => /\ Len(calls) = width * height
       /\ calls = RowMajor(width, height)
       /\ pixels.length = width * height
       /\ \A p \in Grid(width, height) :
            CellAt(pixels, p, width) = colorCalculator(calc, p)
       /\ (calc = "white" =>
             \A k \in 0..(pixels.length - 1) : ArrayGet(pixels, k) = White)

\* C5: for width >= 1 and height >= 1 an iteration yields the coordinates of
\* the grid in row-major order, the k-th being (k mod width, k div width):
\* width * height of them, all distinct, every cell once, the first (0, 0)
\* and the last (width-1, height-1); so does the constructor's own iteration.
C5_RowMajorTraversal ==
  (width >= 1 /\ height >= 1) =>
    /\ \A i \in IterIds :
         /\ Len(yielded[i]) <= width * height
         /\ \A k \in 1..Len(yielded[i]) :
              yielded[i][k] = Pixel((k - 1) % width, (k - 1) \div width)
         /\ finished[i] =>
              /\ Len(yielded[i]) = width * height
              /\ yielded[i][1] = Pixel(0, 0)
              /\ yielded[i][width * height] = Pixel(width - 1, height - 1)
              /\ {yielded[i][k] : k \in 1..Len(yielded[i])} = Grid(width, height)
              /\ Cardinality({yielded[i][k] : k \in 1..Len(yielded[i])}) = width * height
    /\ pc = "ready" => calls = RowMajor(width, height)

C5_Witness ==
  /\ width = 3 /\ height = 2
  /\ finished[1]
  /\ yielded[1] = <<Pixel(0, 0), Pixel(1, 0), Pixel(2, 0),
                    Pixel(0, 1), Pixel(1, 1), Pixel(2, 1)>>

\* C6: for a grid of width >= 0 by height >= 0 reached by construction and
\* in-bounds updatePixel calls, toUint8Array returns width * height * 4 bytes
\* and offsets 4*(y*width + x) + 0..3 hold the r, g, b, a of cell (x, y).
C6_ExportLayout ==
  (ret.op = "toUint8Array" /\ ~oob /\ width >= 0 /\ height >= 0) =>
    /\ ~ret.threw
    /\ DOMAIN ret.value = 0..(width * height * 4 - 1)
    /\ \A p \in Grid(width, height) :
         LET cell == CellAt(pixels, p, width)
             at   == 4 * (p.y * width + p.x)
         IN  /\ ret.value[at] = cell.r
             /\ ret.value[at + 1] = cell.g
             /\ ret.value[at + 2] = cell.b
             /\ ret.value[at + 3] = cell.a

C6_Witness ==
  /\ ret.op = "toUint8Array" /\ ~oob
  /\ width = 2 /\ height = 1
  /\ CellAt(pixels, Pixel(0, 0), width) = Red
  /\ CellAt(pixels, Pixel(1, 0), width) = Blue
  /\ ret.value = [i \in 0..7 |-> <<255, 0, 0, 255, 0, 0, 255, 255>>[i + 1]]

\* C7: an updatePixel(p, c) with p inside the grid stores c at flat index
\* p.y*width + p.x and changes no other cell, whatever updates came before;
\* a getPixel(p) with p inside the grid returns what that index holds, so
\* it returns the color last written to p.
C7_UpdateThenGet ==
  [][/\ (ret'.op = "updatePixel" /\ InBounds(ret'.pixel, width, height)) =>
          /\ CellAt(pixels', ret'.pixel, width) = ret'.color
          /\ ArrayGet(pixels', getPixelIndex(ret'.pixel, width)) = ret'.color
          /\ \A q \in Grid(width, height) \ {ret'.pixel} :
               /\ CellAt(pixels', q, width) = CellAt(pixels, q, width)
               /\ ArrayGet(pixels', getPixelIndex(q, width))
                    = ArrayGet(pixels, getPixelIndex(q, width))
     /\ (ret'.op = "getPixel" /\ InBounds(ret'.pixel, width, height)) =>
          /\ ret'.value = CellAt(pixels, ret'.pixel, width)
          /\ ~ret'.threw
          /\ pixels' = pixels]_vars

\* Blue was written to (1, 1) of a 3 x 2 grid after another write, and read back.
C7_Witness ==
  /\ width = 3 /\ height = 2
  /\ nUpdates = 2
  /\ ret.op = "getPixel" /\ ret.pixel = Pixel(1, 1) /\ ret.value = Blue
  /\ CellAt(pixels, Pixel(0, 1), width) = Red

\* C8: checkBounds(p) throws exactly when p.x < 0 or p.x >= width or p.y < 0
\* or p.y >= height; the message carries p.x, p.y, width and height; the
\* grid is left as it was whether it throws or returns.
C8_CheckBounds ==
  [][ret'.op = "checkBounds" =>
       LET p == ret'.pixel
       IN  /\ ret'.threw <=> (p.x < 0 \/ p.x >= width \/ p.y < 0 \/ p.y >= height)
           /\ ret'.threw =>
                /\ ret'.value[2] = p.x /\ ret'.value[4] = p.y
                /\ ret'.value[6] = width /\ ret'.value[8] = height
           /\ pixels' = pixels]_vars

C8_Witness ==
  /\ width = 3 /\ height = 2 /\ nUpdates > 0
  /\ ret.op = "checkBounds" /\ ret.pixel = Pixel(3, 2) /\ ret.threw
  /\ ret.value = <<"Pixel coordinates (", 3, ", ", 2,
                   ") are out of bounds for image size ", 3, "x", 2, ".">>

\* C19: for every width and height, zero and negative ones included, the
\* iteration terminates: the constructor's loop ends, an iterator returns done
\* after finitely many next() calls, and once it has, every later next()
\* returns done and yields no further coordinate; and nextPixel returns
\* undefined for a pixel with x + 1 >= width and y + 1 >= height.
C19_IterationTerminates ==
  /\ <>(pc = "ready")
  /\ \A i \in IterIds : (iters[i] # Undefined) ~> finished[i]
  /\ [][/\ \A i \in IterIds :
            finished[i] => (finished'[i] /\ yielded'[i] = yielded[i])
        /\ \A x \in (-1)..(MaxWidth + 1), y \in (-1)..(MaxHeight + 1) :
            (x + 1 >= width /\ y + 1 >= height)
              => nextPixel(Pixel(x, y), width, height) = Undefined]_vars

\* An iterator over an image of width 0 and height -1 is done, after (0, 0).
C19_Witness ==
  /\ width = 0 /\ height = -1
  /\ pc = "ready"
  /\ finished[1] /\ yielded[1] = <<Pixel(0, 0)>>
  /\ iters[1].nextEl = Undefined

\* C9: a step of an iterator leaves the grid as it was; whatever the
\* interleaving of the two iterators and the updates made between their steps,
\* what an iterator has yielded starts at (0, 0) and is a prefix of the
\* sequence the constructor's iteration went through, and the whole of it
\* once the iterator is done.
C9_IterationIndependent ==
  [][/\ (iters' # iters) => pixels' = pixels
     /\ \A i \in IterIds :
          /\ Len(yielded'[i]) <= Len(calls')
          /\ yielded'[i] = SubSeq(calls', 1, Len(yielded'[i]))
          /\ yielded'[i] # <<>> => yielded'[i][1] = Pixel(0, 0)
          /\ finished'[i] => yielded'[i] = calls']_vars

\* Iterator 1 is done, iterator 2 is half way, and the grid was updated meanwhile.
C9_Witness ==
  /\ width = 3 /\ height = 2
  /\ finished[1] /\ Len(yielded[1]) = 6
  /\ ~finished[2] /\ Len(yielded[2]) = 2
  /\ nUpdates > 0

====
